---- MODULE Spec2Model ----
(***************************************************************************)
(* redis-orm-lite: a document collection (create / find / update / delete, *)
(* query operators, sort / skip / limit) over a key-value store.           *)
(*                                                                         *)
(* The repository holds three variants of the collection class:            *)
(*   "Model"      src/unnamed/part_000  class Model (identity field _id,   *)
(*                schema-bound create, QueryBuilder)                       *)
(*   "RedisModel" src/unnamed/part_001  class RedisModel (identity field   *)
(*                id, the full operator set)                               *)
(*   "Lite"       src/src/redis-orm.ts  class RedisModel (identity field   *)
(*                id, operators $gt $lt $in only)                          *)
(* The model writes the identity field of every variant as "id".           *)
(***************************************************************************)
EXTENDS Integers, Sequences, FiniteSets, TLC

VARIABLES
    \* ---- predicate evaluator (SpecMatch) ----
    mVariant,   \* the variant whose evaluator is applied
    mDoc,       \* the document handed to the evaluator
    mQuery,     \* the query handed to the evaluator
    mResult,    \* what the evaluator returned
    mDone,      \* whether the evaluator has run
    \* ---- QueryBuilder (SpecQB) ----
    qData,      \* what dataFetcher() resolves to
    qArgs,      \* the arguments the caller passes to sort, skip and limit
    qb,         \* the QueryBuilder's fields _sort, _limit, _skip
    qCalls,     \* the methods chained so far, in order
    qResult,    \* what exec() resolved to
    qDone,      \* whether exec() has run
    \* ---- the collection over the store (SpecSeq, SpecConc) ----
    variant,    \* the collection class in use
    store,      \* the key-value store: key -> stored text
    task,       \* per caller, the operation in progress and its locals
    calls,      \* operations invoked so far
    issued,     \* identifiers that exist: generated, or passed by a caller
    created,    \* id -> the document create returned, while no later
                \* operation has written or deleted that id's key
    client,     \* the module variable of redis-client: "null" until
                \* connectRedis assigns it, then the client by the state of
                \* its connection ("connecting", "ready", "failed")
    early,      \* per caller, the method it called on a client that was
                \* not connected ("none": the call in progress, if any, was
                \* made on a connected client)
    \* ---- several collections over one store (SpecColl) ----
    kCall,      \* the last call: its collection, arguments and result, and
                \* the store and kOwner when it was made
    kOwner      \* key -> the name of the collection that wrote the entry

mvars == <<mVariant, mDoc, mQuery, mResult, mDone>>
qvars == <<qData, qArgs, qb, qCalls, qResult, qDone>>
cvars == <<client, early>>
kvars == <<kCall, kOwner>>
svars == <<variant, store, task, calls, issued, created, client, early>>

vars == <<mVariant, mDoc, mQuery, mResult, mDone,
          qData, qArgs, qb, qCalls, qResult, qDone,
          variant, store, task, calls, issued, created, client, early,
          kCall, kOwner>>

(***************************************************************************)
(* JavaScript values.  A value is a record [t, n]: t is the type tag, n    *)
(* the number, or the index of a string in the dictionary                  *)
(* "" < "a" < "b" < "c" (index 0 is the empty string), so that the order   *)
(* of the indices is the order of the strings.                             *)
(***************************************************************************)
Undef == [t |-> "undefined", n |-> 0]
Null == [t |-> "null", n |-> 0]
NaN == [t |-> "NaN", n |-> 0]
Num(k) == [t |-> "number", n |-> k]
Str(i) == [t |-> "string", n |-> i]

\* ---- bounds ----
MaxNum == 2      \* numbers are 1..MaxNum
MaxStr == 2      \* strings are "" and the first MaxStr letters
MaxOps == 2      \* operator keys in one query
MaxData == 3     \* documents a dataFetcher resolves to
MaxSkip == 2     \* the argument of skip() is -1..MaxSkip
MaxLimit == 2    \* the argument of limit() is 0..MaxLimit
MaxId == 2       \* identifiers the generator can produce
MaxCalls == 3    \* operations invoked in one behaviour

Variants == {"Model", "RedisModel", "Lite"}
FieldNames == {"id", "name", "age"}
DataFields == {"name", "age"}

\* JavaScript ToBoolean: what `!x`, `x || y`, `x && y` test.
Truthy(v) ==
    ~ (v = Undef \/ v = Null \/ v = NaN \/ v = Num(0) \/ v = Str(0))

\* JavaScript `x ?? y`
Nullish(v) == v = Undef \/ v = Null

\* JavaScript ToNumber; NaN is reported by IsNumeric being false.
IsNumeric(v) ==
    \/ v.t = "number"
    \/ v = Null
    \/ v = Str(0)

ToNumber(v) == IF v.t = "number" THEN v.n ELSE 0

\* JavaScript `a < b` (abstract relational comparison): two strings compare as
\* strings, anything else as numbers, and a NaN operand makes it false.
JsLt(a, b) ==
    IF a.t = "string" /\ b.t = "string"
    THEN a.n < b.n
    ELSE IsNumeric(a) /\ IsNumeric(b) /\ ToNumber(a) < ToNumber(b)

JsGt(a, b) == JsLt(b, a)

JsLte(a, b) ==
    IF a.t = "string" /\ b.t = "string"
    THEN a.n <= b.n
    ELSE IsNumeric(a) /\ IsNumeric(b) /\ ToNumber(a) <= ToNumber(b)

JsGte(a, b) == JsLte(b, a)

\* JavaScript `a === b`: same type and same value, and NaN equals nothing.
StrictEq(a, b) == a = b /\ a # NaN

\* Array.prototype.includes (SameValueZero: NaN is found)
Includes(arr, v) == v \in arr

(***************************************************************************)
(* Queries.  A query is the sequence of its entries (Object.entries), each *)
(* [field, cond]; a condition is a literal, or an operator object, the     *)
(* sequence of its keys in iteration order, each [op, arg, arr] (arg the   *)
(* operand of a scalar operator, arr the array operand of $in and $nin).   *)
(***************************************************************************)
Lit(v) == [kind |-> "lit", v |-> v, ops |-> <<>>]
Ops(s) == [kind |-> "ops", v |-> Null, ops |-> s]
ScalarOp(o, v) == [op |-> o, arg |-> v, arr |-> {}]
ArrayOp(o, a) == [op |-> o, arg |-> Null, arr |-> a]

ScalarOpNames == {"$gt", "$gte", "$lt", "$lte", "$ne"}
ArrayOpNames == {"$in", "$nin"}
KnownOpNames == ScalarOpNames \cup ArrayOpNames
\* a key that is none of the seven operators
UnknownOpNames == {"$regex"}

\* the operand stored under key o of an operator object, if the key is there
HasOp(ops, o) == \E i \in DOMAIN ops : ops[i].op = o
OpAt(ops, o) == ops[CHOOSE i \in DOMAIN ops : ops[i].op = o]

\* ---- Model._matchesQuery (part_000) ----
\* one case of the switch: TRUE when the case returns false
OpFails_Model(value, o) ==
    CASE o.op = "$gt" -> ~ JsGt(value, o.arg)
      [] o.op = "$gte" -> ~ JsGte(value, o.arg)
      [] o.op = "$lt" -> ~ JsLt(value, o.arg)
      [] o.op = "$lte" -> ~ JsLte(value, o.arg)
      [] o.op = "$in" -> ~ Includes(o.arr, value)
      [] o.op = "$nin" -> Includes(o.arr, value)
      [] o.op = "$ne" -> StrictEq(value, o.arg)
      [] OTHER -> TRUE

\* for (let op in condition) { switch ... } return true
RECURSIVE ForOps_Model(_, _)
ForOps_Model(value, ops) ==
    IF ops = <<>> THEN TRUE
    ELSE IF OpFails_Model(value, Head(ops)) THEN FALSE
    ELSE ForOps_Model(value, Tail(ops))

Cond_Model(value, cond) ==
    IF cond.kind = "ops"
    THEN ForOps_Model(value, cond.ops)
    ELSE StrictEq(value, cond.v)

matchesQuery(doc, query) ==
    \A i \in DOMAIN query : Cond_Model(doc[query[i].field], query[i].cond)

\* ---- RedisModel._matches (part_001) ----
Cond_RedisModel(value, cond) ==
    IF cond.kind = "ops"
    THEN LET op == cond.ops IN
         /\ ~ (HasOp(op, "$gt") /\ ~ JsGt(value, OpAt(op, "$gt").arg))
         /\ ~ (HasOp(op, "$gte") /\ ~ JsGte(value, OpAt(op, "$gte").arg))
         /\ ~ (HasOp(op, "$lt") /\ ~ JsLt(value, OpAt(op, "$lt").arg))
         /\ ~ (HasOp(op, "$lte") /\ ~ JsLte(value, OpAt(op, "$lte").arg))
         /\ ~ (HasOp(op, "$in") /\ ~ Includes(OpAt(op, "$in").arr, value))
         /\ ~ (HasOp(op, "$nin") /\ Includes(OpAt(op, "$nin").arr, value))
         /\ ~ (HasOp(op, "$ne") /\ StrictEq(value, OpAt(op, "$ne").arg))
    ELSE ~ (~ StrictEq(value, cond.v))

\* for (const [field, cond] of Object.entries(query)) ... return true
RECURSIVE matches(_, _)
matches(doc, query) ==
    IF query = <<>> THEN TRUE
    ELSE IF ~ Cond_RedisModel(doc[Head(query).field], Head(query).cond) THEN FALSE
    ELSE matches(doc, Tail(query))

\* ---- the match inlined in RedisModel.find (src/src/redis-orm.ts) ----
Cond_Lite(value, cond) ==
    IF cond.kind = "ops"
    THEN LET c == cond.ops IN
         /\ ~ (HasOp(c, "$gt") /\ ~ JsGt(value, OpAt(c, "$gt").arg))
         /\ ~ (HasOp(c, "$lt") /\ ~ JsLt(value, OpAt(c, "$lt").arg))
         /\ ~ (HasOp(c, "$in") /\ ~ Includes(OpAt(c, "$in").arr, value))
    ELSE ~ (~ StrictEq(value, cond.v))

\* let match = true; for (...) { ... match = false ... }
RECURSIVE matchLoop_Lite(_, _, _)
matchLoop_Lite(doc, query, match) ==
    IF query = <<>> THEN match
    ELSE matchLoop_Lite(doc, Tail(query),
            IF Cond_Lite(doc[Head(query).field], Head(query).cond)
            THEN match ELSE FALSE)

\* the evaluator of variant v
Evaluator(v, doc, query) ==
    CASE v = "Model" -> matchesQuery(doc, query)
      [] v = "RedisModel" -> matches(doc, query)
      [] v = "Lite" -> matchLoop_Lite(doc, query, TRUE)


(***************************************************************************)
(* QueryBuilder (part_000).  _sort is the sort specification, the sequence *)
(* of its [key, dir] entries in iteration order, and null until sort() is  *)
(* called; _limit is null until limit() is called.                         *)
(***************************************************************************)
NewQueryBuilder ==
    [sortSet |-> FALSE, sort |-> <<>>, limitSet |-> FALSE, limit |-> 0,
     skip |-> 0]

sort(b, fields) == [b EXCEPT !.sortSet = TRUE, !.sort = fields]
limit(b, n) == [b EXCEPT !.limitSet = TRUE, !.limit = n]
skip(b, n) == [b EXCEPT !.skip = n]

\* the comparator handed to results.sort: negative, zero or positive
RECURSIVE compare(_, _, _)
compare(a, b, sortKeys) ==
    IF sortKeys = <<>> THEN 0
    ELSE LET key == Head(sortKeys).key
             dir == Head(sortKeys).dir
         IN  IF JsLt(a[key], b[key]) THEN (-1) * dir
             ELSE IF JsGt(a[key], b[key]) THEN 1 * dir
             ELSE compare(a, b, Tail(sortKeys))

\* x put before the elements it compares equal to: the sort is not stable
RECURSIVE InsertSorted_BeforeEquals(_, _, _)
InsertSorted_BeforeEquals(s, x, sortKeys) ==
    IF s = <<>> THEN <<x>>
    ELSE IF compare(s[Len(s)], x, sortKeys) >= 0
    THEN Append(InsertSorted_BeforeEquals(SubSeq(s, 1, Len(s) - 1), x, sortKeys),
                s[Len(s)])
    ELSE Append(s, x)

\* x put into the sorted sequence s behind every element that does not
\* compare greater than it
RECURSIVE InsertSorted(_, _, _)
InsertSorted(s, x, sortKeys) ==
    IF s = <<>> THEN <<x>>
    ELSE IF compare(s[Len(s)], x, sortKeys) > 0
    THEN Append(InsertSorted(SubSeq(s, 1, Len(s) - 1), x, sortKeys), s[Len(s)])
    ELSE Append(s, x)

\* Array.prototype.sort with a comparator: a stable sort (ES2019).  For the
\* comparators of the model (numbers with numbers, strings with strings) the
\* result of a stable sort is unique.
RECURSIVE ArraySort(_, _)
ArraySort(s, sortKeys) ==
    IF s = <<>> THEN <<>>
    ELSE InsertSorted(ArraySort(SubSeq(s, 1, Len(s) - 1), sortKeys),
                      s[Len(s)], sortKeys)

Min(a, b) == IF a < b THEN a ELSE b
Max(a, b) == IF a > b THEN a ELSE b

\* Array.prototype.slice(start, end), 0-based, negative indices from the end
ArraySlice(s, start, end) ==
    LET len == Len(s)
        from == IF start < 0 THEN Max(len + start, 0) ELSE Min(start, len)
        to == IF end < 0 THEN Max(len + end, 0) ELSE Min(end, len)
    IN  IF from >= to THEN <<>> ELSE SubSeq(s, from + 1, to)

\* exec() without the test `this._skip > 0`: a negative skip reaches slice
exec_UnguardedSkip(b, results) ==
    LET sorted == IF b.sortSet THEN ArraySort(results, b.sort) ELSE results
        skipped == ArraySlice(sorted, b.skip, Len(sorted))
    IN  IF b.limitSet THEN ArraySlice(skipped, 0, b.limit) ELSE skipped

\* exec() with the limit applied before the skip
exec_LimitBeforeSkip(b, results) ==
    LET sorted == IF b.sortSet THEN ArraySort(results, b.sort) ELSE results
        limited == IF b.limitSet THEN ArraySlice(sorted, 0, b.limit) ELSE sorted
    IN  IF b.skip > 0 THEN ArraySlice(limited, b.skip, Len(limited))
        ELSE limited

\* the body of exec() after `await this.dataFetcher()`
exec(b, results) ==
    LET sorted == IF b.sortSet THEN ArraySort(results, b.sort) ELSE results
        skipped == IF b.skip > 0
                   THEN ArraySlice(sorted, b.skip, Len(sorted))
                   ELSE sorted
    IN  IF b.limitSet THEN ArraySlice(skipped, 0, b.limit) ELSE skipped


(***************************************************************************)
(* Document codec.  A document in memory is a function from the field      *)
(* names to values, Undef for a field the object does not have (or has as  *)
(* undefined).  The stored text is represented by its members, the set of  *)
(* <<field, value>> pairs JSON.stringify writes: a field that is undefined *)
(* is left out and NaN is written as null.                                 *)
(***************************************************************************)
NoDoc == [f \in FieldNames |-> Undef]

\* a serialiser that also leaves out the members that are null
JSONstringify_DropsNull(doc) ==
    {<<f, IF doc[f] = NaN THEN Null ELSE doc[f]>> :
        f \in {g \in FieldNames : doc[g] \notin {Undef, Null, NaN}}}

JSONstringify(doc) ==
    {<<f, IF doc[f] = NaN THEN Null ELSE doc[f]>> :
        f \in {g \in FieldNames : doc[g] # Undef}}

JSONparse(raw) ==
    [f \in FieldNames |->
        IF \E m \in raw : m[1] = f
        THEN (CHOOSE m \in raw : m[1] = f)[2]
        ELSE Undef]

\* a stored text that is not JSON (written by another program): JSON.parse
\* throws a SyntaxError on it.  It is told from every text JSON.stringify
\* writes by a member no document has.
Malformed == {<<"", Undef>>}
IsJSON(raw) == raw # Malformed

\* the partial is left out of the document that is stored
Assign_Ignored(doc, data) == doc

\* the partial replaces the document instead of being merged into it
Assign_Replace(doc, data) == data

\* Object.assign(doc, data) and { ...doc, ...data }: the fields of data
\* overwrite, the others stay
Assign(doc, data) ==
    [f \in FieldNames |-> IF data[f] # Undef THEN data[f] ELSE doc[f]]

(***************************************************************************)
(* The key-value store (Redis through ioredis / node-redis).               *)
(***************************************************************************)
EmptyStore == [k \in {} |-> {}]

\* `${this.name}:${id}`: one collection is modelled, so that the key of an id
\* is written as the id
getKey(id) == id

\* GET: whether a value came back (`if (!raw)` is false), and the value
Has(st, key) == key \in DOMAIN st
\* no call has been made on any collection of SpecColl
IdleCall ==
    [op |-> "idle", name |-> <<>>, query |-> <<>>, pre |-> EmptyStore,
     owner |-> EmptyStore,
     ret |-> [kind |-> "none", doc |-> NoDoc, n |-> 0, docs |-> <<>>]]
CollIdle == kCall = IdleCall /\ kOwner = EmptyStore

\* SET with NX: an existing key keeps its value
StoreSet_IfAbsent(st, key, raw) ==
    [k \in DOMAIN st \cup {key} |-> IF k \in DOMAIN st THEN st[k] ELSE raw]

\* SET
StoreSet(st, key, raw) ==
    [k \in DOMAIN st \cup {key} |-> IF k = key THEN raw ELSE st[k]]
\* DEL: the store after it, and the number of keys removed
StoreDel(st, key) == [k \in DOMAIN st \ {key} |-> st[k]]
DelCount(st, key) == IF key \in DOMAIN st THEN 1 ELSE 0

\* the sequences that enumerate a set once each: KEYS replies in any order
RECURSIVE Enumerations(_)
Enumerations(S) ==
    IF S = {} THEN {<<>>}
    ELSE UNION {{<<x>> \o e : e \in Enumerations(S \ {x})} : x \in S}

(***************************************************************************)
(* Callers.  A task is one call of a collection method: its arguments, its *)
(* locals, the place it has reached (each step is one store call together  *)
(* with the code up to the next await) and, once done, what it resolved    *)
(* to.  pre, removed are history: the store when the call was made, and    *)
(* the number of keys the store reported removed by this call's DELs.      *)
(***************************************************************************)
Procs == {1, 2}

NoRet == [kind |-> "none", doc |-> NoDoc, n |-> 0, docs |-> <<>>]
RetDoc(d) == [kind |-> "doc", doc |-> d, n |-> 0, docs |-> <<>>]
RetNull == [kind |-> "null", doc |-> NoDoc, n |-> 0, docs |-> <<>>]
RetCount(n) == [kind |-> "count", doc |-> NoDoc, n |-> n, docs |-> <<>>]
RetDocs(s) == [kind |-> "docs", doc |-> NoDoc, n |-> 0, docs |-> s]
\* the promise is rejected with error e
RetError(e) == [kind |-> e, doc |-> NoDoc, n |-> 0, docs |-> <<>>]
\* the errors: thrown by getRedisClient, by the client library, by
\* JSON.parse, and a store command that failed
Errors == {"ConfigError", "ClientError", "SyntaxError", "StoreError"}

IdleTask ==
    [op |-> "idle", pc |-> "idle", id |-> Undef, query |-> <<>>,
     data |-> NoDoc, returnNew |-> FALSE, keys |-> <<>>, docs |-> <<>>,
     count |-> 0, ret |-> NoRet, pre |-> EmptyStore, removed |-> 0]

\* a call of method op, made now
NewTask(op, id, query, data) ==
    [IdleTask EXCEPT !.op = op, !.id = id, !.query = query, !.data = data,
                     !.pre = store]

Idle(p) == task[p].op = "idle"

\* getRedisClient(): if (!client) throw ...; return client.  Model is handed
\* its client by the constructor.
HasClient == variant = "Model" \/ client # "null"
\* the commands of a client run once its connection is ready
Connected == variant = "Model" \/ client = "ready"

\* caller p can make a call that runs now
CanCall(p) == Idle(p) /\ calls < MaxCalls /\ HasClient /\ Connected

IdPool == {Str(i) : i \in 1..MaxId}
\* uuidv4(): an identifier that exists nowhere yet
FreshIds == IdPool \ issued

\* `created` after a SET or DEL of key by an operation other than create
Touch(key) == [k \in DOMAIN created \ {key} |-> created[k]]

StoreIdle ==
    /\ CollIdle
    /\ variant = "none"
    /\ store = EmptyStore
    /\ task = [p \in Procs |-> IdleTask]
    /\ calls = 0
    /\ issued = {}
    /\ created = EmptyStore
    /\ client = "null"
    /\ early = [p \in Procs |-> "none"]

\* ---- create ----
\* Model.create (part_000): a fresh _id, and every schema field from data or
\* null
NewDoc_Model(id, data) ==
    [f \in FieldNames |->
        IF f = "id" THEN id
        ELSE IF Nullish(data[f]) THEN Null ELSE data[f]]

\* RedisModel.create: { ...doc, id }
NewDoc_RedisModel(id, doc) == [doc EXCEPT !["id"] = id]

\* the id RedisModel.create stores under: doc.id ?? uuidv4() in part_001,
\* doc.id || uuidv4() in src/src/redis-orm.ts
KeepsCallerId(v, doc) ==
    IF v = "RedisModel" THEN ~ Nullish(doc["id"]) ELSE Truthy(doc["id"])

create(p, data) ==
    /\ CanCall(p)
    /\ \E id \in IF variant # "Model" /\ KeepsCallerId(variant, data)
                 THEN {data["id"]} ELSE FreshIds :
          LET doc == IF variant = "Model" THEN NewDoc_Model(id, data)
                     ELSE NewDoc_RedisModel(id, data)
          IN  /\ store' = StoreSet(store, getKey(id), JSONstringify(doc))
              /\ task' = [task EXCEPT ![p] =
                            [NewTask("create", Undef, <<>>, data) EXCEPT
                                !.pc = "done", !.ret = RetDoc(doc)]]
              /\ issued' = issued \cup {id}
              /\ created' = [k \in DOMAIN created \cup {getKey(id)} |->
                                IF k = getKey(id) THEN doc ELSE created[k]]
    /\ calls' = calls + 1
    /\ UNCHANGED variant
    /\ UNCHANGED <<mvars, qvars, cvars, kvars>>

\* ---- findById ----
\* const raw = await this.redis.get(this._key(id));
\* return raw ? JSON.parse(raw) : null;
findById_result(st, id) ==
    IF ~ Has(st, getKey(id)) THEN RetNull
    ELSE IF ~ IsJSON(st[getKey(id)]) THEN RetError("SyntaxError")
    ELSE RetDoc(JSONparse(st[getKey(id)]))

\* a findById that takes the value out of the store as it reads it
findById_GetDel(p, id) ==
    /\ CanCall(p)
    /\ task' = [task EXCEPT ![p] =
                  [NewTask("findById", id, <<>>, NoDoc) EXCEPT
                      !.pc = "done", !.ret = findById_result(store, id)]]
    /\ calls' = calls + 1
    /\ issued' = issued \cup {id}
    /\ store' = StoreDel(store, getKey(id))
    /\ UNCHANGED <<variant, created>>
    /\ UNCHANGED <<mvars, qvars, cvars, kvars>>

findById(p, id) ==
    /\ CanCall(p)
    /\ task' = [task EXCEPT ![p] =
                  [NewTask("findById", id, <<>>, NoDoc) EXCEPT
                      !.pc = "done", !.ret = findById_result(store, id)]]
    /\ calls' = calls + 1
    /\ issued' = issued \cup {id}
    /\ UNCHANGED <<variant, store, created>>
    /\ UNCHANGED <<mvars, qvars, cvars, kvars>>

\* an update that writes the partial under the id when nothing is stored there
update_get_Upsert(p, id, data) ==
    /\ variant = "Model"
    /\ CanCall(p)
    /\ task' = [task EXCEPT ![p] =
                  [NewTask("update", id, <<>>, data) EXCEPT
                      !.pc = "set",
                      !.docs = <<IF Has(store, getKey(id))
                                 THEN Assign(JSONparse(store[getKey(id)]), data)
                                 ELSE Assign(NoDoc, data)>>]]
    /\ calls' = calls + 1
    /\ issued' = issued \cup {id} \cup ({data["id"]} \ {Undef})
    /\ UNCHANGED <<variant, store, created>>
    /\ UNCHANGED <<mvars, qvars, cvars, kvars>>

\* ---- Model.update ----
\* const raw = await this.redis.get(key); if (!raw) return null;
\* const doc = JSON.parse(raw); Object.assign(doc, data);
update_get(p, id, data) ==
    /\ variant = "Model"
    /\ CanCall(p)
    /\ task' = [task EXCEPT ![p] =
                  IF ~ Has(store, getKey(id))
                  THEN [NewTask("update", id, <<>>, data) EXCEPT
                          !.pc = "done", !.ret = RetNull]
                  ELSE IF ~ IsJSON(store[getKey(id)])
                  THEN [NewTask("update", id, <<>>, data) EXCEPT
                          !.pc = "done", !.ret = RetError("SyntaxError")]
                  ELSE [NewTask("update", id, <<>>, data) EXCEPT
                          !.pc = "set",
                          !.docs = <<Assign(JSONparse(store[getKey(id)]), data)>>]]
    /\ calls' = calls + 1
    /\ issued' = issued \cup {id} \cup ({data["id"]} \ {Undef})
    /\ UNCHANGED <<variant, store, created>>
    /\ UNCHANGED <<mvars, qvars, cvars, kvars>>

\* await this.redis.set(key, JSON.stringify(doc)); return doc;
update_set(p) ==
    /\ task[p].op = "update" /\ task[p].pc = "set"
    /\ LET doc == task[p].docs[1]
           key == getKey(task[p].id)
       IN  /\ store' = StoreSet(store, key, JSONstringify(doc))
           /\ task' = [task EXCEPT ![p].pc = "done", ![p].ret = RetDoc(doc)]
           /\ created' = Touch(key)
    /\ UNCHANGED <<variant, calls, issued>>
    /\ UNCHANGED <<mvars, qvars, cvars, kvars>>

\* ---- Model.delete ----
\* return this.redis.del(this._key(id));
delete(p, id) ==
    /\ variant = "Model"
    /\ CanCall(p)
    /\ store' = StoreDel(store, getKey(id))
    /\ task' = [task EXCEPT ![p] =
                  [NewTask("delete", id, <<>>, NoDoc) EXCEPT
                      !.pc = "done",
                      !.ret = RetCount(DelCount(store, getKey(id))),
                      !.removed = DelCount(store, getKey(id))]]
    /\ calls' = calls + 1
    /\ issued' = issued \cup {id}
    /\ created' = Touch(getKey(id))
    /\ UNCHANGED variant
    /\ UNCHANGED <<mvars, qvars, cvars, kvars>>

\* the caller takes the result
return(p) ==
    /\ task[p].pc = "done"
    /\ task' = [task EXCEPT ![p] = IdleTask]
    /\ early' = [early EXCEPT ![p] = "none"]
    /\ UNCHANGED <<variant, store, calls, issued, created, client>>
    /\ UNCHANGED <<mvars, qvars, kvars>>


(***************************************************************************)
(* Scans.  find (and the fetcher of Model.find) asks the store for the     *)
(* keys of the collection, then gets and decodes them one by one and keeps *)
(* the documents the evaluator accepts; RedisModel.findOne runs the same   *)
(* loop and returns at the first match.  task.keys holds the keys still to *)
(* get, task.docs the documents kept.                                      *)
(***************************************************************************)
\* the methods of each class that scan
ScanOps(v) ==
    CASE v = "Model" ->
            {"find", "findOne", "countDocuments", "updateMany", "deleteMany"}
      [] v = "RedisModel" ->
            {"find", "findOne", "countDocuments", "updateMany", "updateOne",
             "findOneAndUpdate", "deleteMany", "deleteOne", "findOneAndDelete"}
      [] v = "Lite" ->
            {"find", "countDocuments", "updateMany", "deleteMany"}
      [] OTHER -> {}

\* the methods built on RedisModel.findOne (part_001)
FindOneOps ==
    {"findOne", "updateOne", "findOneAndUpdate", "deleteOne", "findOneAndDelete"}

ReturnsAtFirstMatch(v, op) == v = "RedisModel" /\ op \in FindOneOps

\* for (const doc of docs) { if (!doc.id) continue; ...: the documents of the
\* loop from the first one the loop body acts on (Model has no such test)
RECURSIVE SkipNoId(_, _)
SkipNoId(v, docs) ==
    IF docs = <<>> THEN <<>>
    ELSE IF v # "Model" /\ ~ Truthy(Head(docs)["id"]) THEN SkipNoId(v, Tail(docs))
    ELSE docs

\* the task at the head of the updateMany / deleteMany loop over docs
EnterLoop(v, t, docs, pc) ==
    LET rest == SkipNoId(v, docs)
    IN  IF rest = <<>>
        THEN [t EXCEPT !.pc = "done", !.keys = <<>>, !.docs = <<>>,
                       !.ret = RetCount(t.count)]
        ELSE [t EXCEPT !.pc = pc, !.keys = <<>>, !.docs = rest]

\* findOne resolving to the last match of the scan
AfterFind_LastMatch(v, t, results) ==
    LET found == IF v = "Model" THEN exec(NewQueryBuilder, results)
                 ELSE results
    IN  CASE t.op = "find" ->
                [t EXCEPT !.pc = "done", !.keys = <<>>, !.docs = <<>>,
                          !.ret = RetDocs(found)]
          [] t.op = "findOne" ->
                [t EXCEPT !.pc = "done", !.keys = <<>>, !.docs = <<>>,
                          !.ret = IF Len(results) > 0
                                  THEN RetDoc(results[Len(results)])
                                  ELSE RetNull]
          [] t.op = "countDocuments" ->
                [t EXCEPT !.pc = "done", !.keys = <<>>, !.docs = <<>>,
                          !.ret = RetCount(Len(found))]
          [] t.op = "updateMany" -> EnterLoop(v, t, found, "many_set")
          [] t.op = "deleteMany" -> EnterLoop(v, t, found, "many_del")

\* find resolving like findOne, to the first match only
AfterFind_FirstOnly(v, t, results) ==
    LET found == IF v = "Model" THEN exec(NewQueryBuilder, results)
                 ELSE results
        one == exec(limit(NewQueryBuilder, 1), results)
    IN  CASE t.op = "find" ->
                [t EXCEPT !.pc = "done", !.keys = <<>>, !.docs = <<>>,
                          !.ret = RetDocs(one)]
          [] t.op = "findOne" ->
                [t EXCEPT !.pc = "done", !.keys = <<>>, !.docs = <<>>,
                          !.ret = IF Len(one) > 0 THEN RetDoc(one[1])
                                  ELSE RetNull]
          [] t.op = "countDocuments" ->
                [t EXCEPT !.pc = "done", !.keys = <<>>, !.docs = <<>>,
                          !.ret = RetCount(Len(found))]
          [] t.op = "updateMany" -> EnterLoop(v, t, found, "many_set")
          [] t.op = "deleteMany" -> EnterLoop(v, t, found, "many_del")

\* the task once find(query) (with exec(), in Model) has resolved to results
AfterFind(v, t, results) ==
    LET found == IF v = "Model" THEN exec(NewQueryBuilder, results)
                 ELSE results
    IN  CASE t.op = "find" ->
                [t EXCEPT !.pc = "done", !.keys = <<>>, !.docs = <<>>,
                          !.ret = RetDocs(found)]
          [] t.op = "findOne" ->
                \* Model.findOne: find(query).limit(1).exec()
                LET one == exec(limit(NewQueryBuilder, 1), results)
                IN  [t EXCEPT !.pc = "done", !.keys = <<>>, !.docs = <<>>,
                              !.ret = IF Len(one) > 0 THEN RetDoc(one[1])
                                      ELSE RetNull]
          [] t.op = "countDocuments" ->
                [t EXCEPT !.pc = "done", !.keys = <<>>, !.docs = <<>>,
                          !.ret = RetCount(Len(found))]
          [] t.op = "updateMany" -> EnterLoop(v, t, found, "many_set")
          [] t.op = "deleteMany" -> EnterLoop(v, t, found, "many_del")

\* the task once RedisModel.findOne has resolved to a document (found) or to
\* null
AfterFindOne(t, found, doc) ==
    LET none == ~ found \/ ~ Truthy(doc["id"])
        stop(r) == [t EXCEPT !.pc = "done", !.keys = <<>>, !.docs = <<>>,
                             !.ret = r]
        go(pc) == [t EXCEPT !.pc = pc, !.keys = <<>>, !.docs = <<doc>>]
    IN  CASE t.op = "findOne" -> stop(IF found THEN RetDoc(doc) ELSE RetNull)
          [] t.op = "updateOne" -> IF none THEN stop(RetNull) ELSE go("one_set")
          [] t.op = "findOneAndUpdate" ->
                IF none THEN stop(RetNull) ELSE go("one_set")
          [] t.op = "deleteOne" ->
                IF none THEN stop(RetCount(0)) ELSE go("one_del")
          [] t.op = "findOneAndDelete" ->
                IF none THEN stop(RetNull) ELSE go("one_del")

\* the task when the loop over the keys has run out
LoopEnd(v, t, results) ==
    IF ReturnsAtFirstMatch(v, t.op) THEN AfterFindOne(t, FALSE, NoDoc)
    ELSE AfterFind(v, t, results)

\* a scanning method is called: const keys = await client.keys(`${name}:*`)
scan_keys(p, op, query, data, returnNew) ==
    /\ CanCall(p)
    /\ op \in ScanOps(variant)
    /\ \E ks \in Enumerations(DOMAIN store) :
          LET t == [NewTask(op, Undef, query, data) EXCEPT
                       !.returnNew = returnNew]
          IN  task' = [task EXCEPT ![p] =
                          IF ks = <<>> THEN LoopEnd(variant, t, <<>>)
                          ELSE [t EXCEPT !.pc = "get", !.keys = ks]]
    /\ calls' = calls + 1
    /\ issued' = issued \cup ({data["id"]} \ {Undef})
    /\ UNCHANGED <<variant, store, created>>
    /\ UNCHANGED <<mvars, qvars, cvars, kvars>>

\* a loop that stops at a key without a value instead of skipping it
scan_get_StopsAtMissingKey(p) ==
    /\ task[p].pc = "get"
    /\ LET t == task[p]
           key == Head(t.keys)
           got == Has(store, key)
           bad == got /\ ~ IsJSON(store[key])
           doc == IF got /\ ~ bad THEN JSONparse(store[key]) ELSE NoDoc
           hit == got /\ ~ bad /\ Evaluator(variant, doc, t.query)
           results == IF hit THEN Append(t.docs, doc) ELSE t.docs
           next == [t EXCEPT !.keys = Tail(t.keys), !.docs = results]
       IN  task' = [task EXCEPT ![p] =
                      IF bad
                      THEN [t EXCEPT !.pc = "done", !.keys = <<>>, !.docs = <<>>,
                                     !.ret = RetError("SyntaxError")]
                      ELSE IF hit /\ ReturnsAtFirstMatch(variant, t.op)
                      THEN AfterFindOne(t, TRUE, doc)
                      ELSE IF Tail(t.keys) = <<>> \/ ~ got
                      THEN LoopEnd(variant, next, results)
                      ELSE next]
    /\ UNCHANGED <<variant, store, calls, issued, created>>
    /\ UNCHANGED <<mvars, qvars, cvars, kvars>>

\* one turn of the loop: const data = await client.get(key);
\* if (!data) continue; const doc = JSON.parse(data); if (matches) ...
\* JSON.parse is not in a try block: its SyntaxError rejects the method.
scan_get(p) ==
    /\ task[p].pc = "get"
    /\ LET t == task[p]
           key == Head(t.keys)
           got == Has(store, key)
           bad == got /\ ~ IsJSON(store[key])
           doc == IF got /\ ~ bad THEN JSONparse(store[key]) ELSE NoDoc
           hit == got /\ ~ bad /\ Evaluator(variant, doc, t.query)
           results == IF hit THEN Append(t.docs, doc) ELSE t.docs
           next == [t EXCEPT !.keys = Tail(t.keys), !.docs = results]
       IN  task' = [task EXCEPT ![p] =
                      IF bad
                      THEN [t EXCEPT !.pc = "done", !.keys = <<>>, !.docs = <<>>,
                                     !.ret = RetError("SyntaxError")]
                      ELSE IF hit /\ ReturnsAtFirstMatch(variant, t.op)
                      THEN AfterFindOne(t, TRUE, doc)
                      ELSE IF Tail(t.keys) = <<>>
                      THEN LoopEnd(variant, next, results)
                      ELSE next]
    /\ UNCHANGED <<variant, store, calls, issued, created>>
    /\ UNCHANGED <<mvars, qvars, cvars, kvars>>

find(p, query) == scan_keys(p, "find", query, NoDoc, FALSE)
findOne(p, query) == scan_keys(p, "findOne", query, NoDoc, FALSE)
countDocuments(p, query) == scan_keys(p, "countDocuments", query, NoDoc, FALSE)
updateMany(p, query, data) == scan_keys(p, "updateMany", query, data, FALSE)
deleteMany(p, query) == scan_keys(p, "deleteMany", query, NoDoc, FALSE)
updateOne(p, query, data) == scan_keys(p, "updateOne", query, data, FALSE)
findOneAndUpdate(p, query, data, returnNew) ==
    scan_keys(p, "findOneAndUpdate", query, data, returnNew)
deleteOne(p, query) == scan_keys(p, "deleteOne", query, NoDoc, FALSE)
findOneAndDelete(p, query) ==
    scan_keys(p, "findOneAndDelete", query, NoDoc, FALSE)

\* updateMany, one turn of the loop over docs: the key is that of the
\* document's identity field as it was read; the merged document is stored
many_set(p) ==
    /\ task[p].pc = "many_set"
    /\ LET t == task[p]
           doc == Head(t.docs)
           key == getKey(doc["id"])
           updated == Assign(doc, t.data)
       IN  /\ store' = StoreSet(store, key, JSONstringify(updated))
           /\ task' = [task EXCEPT ![p] =
                          EnterLoop(variant, [t EXCEPT !.count = t.count + 1],
                                    Tail(t.docs), "many_set")]
           /\ created' = Touch(key)
    /\ UNCHANGED <<variant, calls, issued>>
    /\ UNCHANGED <<mvars, qvars, cvars, kvars>>

\* deleteMany, one turn of the loop over docs
many_del(p) ==
    /\ task[p].pc = "many_del"
    /\ LET t == task[p]
           key == getKey(Head(t.docs)["id"])
       IN  /\ store' = StoreDel(store, key)
           /\ task' = [task EXCEPT ![p] =
                          EnterLoop(variant,
                                    [t EXCEPT !.count = t.count + 1,
                                              !.removed = t.removed
                                                  + DelCount(store, key)],
                                    Tail(t.docs), "many_del")]
           /\ created' = Touch(key)
    /\ UNCHANGED <<variant, calls, issued>>
    /\ UNCHANGED <<mvars, qvars, cvars, kvars>>

\* updateOne and findOneAndUpdate after findOne: const updated =
\* { ...doc, ...update }; await client.set(this.getKey(doc.id), ...)
one_set(p) ==
    /\ task[p].pc = "one_set"
    /\ LET t == task[p]
           doc == t.docs[1]
           key == getKey(doc["id"])
           updated == Assign(doc, t.data)
       IN  /\ store' = StoreSet(store, key, JSONstringify(updated))
           /\ task' = [task EXCEPT
                          ![p].pc = "done", ![p].docs = <<>>,
                          ![p].ret = IF t.op = "updateOne" \/ t.returnNew
                                     THEN RetDoc(updated) ELSE RetDoc(doc)]
           /\ created' = Touch(key)
    /\ UNCHANGED <<variant, calls, issued>>
    /\ UNCHANGED <<mvars, qvars, cvars, kvars>>

\* deleteOne and findOneAndDelete after findOne:
\* await client.del(this.getKey(doc.id)); return 1 / return doc
one_del(p) ==
    /\ task[p].pc = "one_del"
    /\ LET t == task[p]
           doc == t.docs[1]
           key == getKey(doc["id"])
       IN  /\ store' = StoreDel(store, key)
           /\ task' = [task EXCEPT
                          ![p].pc = "done", ![p].docs = <<>>,
                          ![p].removed = t.removed + DelCount(store, key),
                          ![p].ret = IF t.op = "deleteOne" THEN RetCount(1)
                                     ELSE RetDoc(doc)]
           /\ created' = Touch(key)
    /\ UNCHANGED <<variant, calls, issued>>
    /\ UNCHANGED <<mvars, qvars, cvars, kvars>>


(***************************************************************************)
(* The connection (redis-client).  connectRedis assigns the module         *)
(* variable before the connection is established: synchronously in the     *)
(* ioredis version, before `await client.connect()` in the node-redis      *)
(* version, where it also stays assigned when connect() rejects.           *)
(* getRedisClient throws only while the variable is unassigned.  What a    *)
(* command does on a client that is not connected is the library's         *)
(* business: it is held back and runs once the connection is ready, or it  *)
(* is rejected with an error of the library.                               *)
(***************************************************************************)
\* the methods of the classes that call getRedisClient
Methods(v) == IF v = "Model" THEN {} ELSE {"create", "findById"} \cup ScanOps(v)

\* client = new Redis(redisUrl) / client = createClient({ url })
connectRedis ==
    /\ client = "null"
    /\ client' = "connecting"
    /\ UNCHANGED <<variant, store, task, calls, issued, created, early>>
    /\ UNCHANGED <<mvars, qvars, kvars>>

\* the connection is established, or fails
connect_settles(outcome) ==
    /\ client = "connecting"
    /\ client' = outcome
    /\ UNCHANGED <<variant, store, task, calls, issued, created, early>>
    /\ UNCHANGED <<mvars, qvars, kvars>>

\* a method is called while client is unassigned: getRedisClient throws
call_uninitialized(p, op) ==
    /\ Idle(p) /\ early[p] = "none" /\ calls < MaxCalls
    /\ ~ HasClient
    /\ op \in Methods(variant)
    /\ task' = [task EXCEPT ![p] =
                  [NewTask(op, Undef, <<>>, NoDoc) EXCEPT
                      !.pc = "done", !.ret = RetError("ConfigError")]]
    /\ early' = [early EXCEPT ![p] = op]
    /\ calls' = calls + 1
    /\ UNCHANGED <<variant, store, issued, created, client>>
    /\ UNCHANGED <<mvars, qvars, kvars>>

\* a method is called while client is assigned and not connected:
\* getRedisClient returns it and the first command of the method is held back
call_unconnected(p, op) ==
    /\ Idle(p) /\ early[p] = "none" /\ calls < MaxCalls
    /\ HasClient /\ ~ Connected
    /\ op \in Methods(variant)
    /\ early' = [early EXCEPT ![p] = op]
    /\ UNCHANGED <<variant, store, task, calls, issued, created, client>>
    /\ UNCHANGED <<mvars, qvars, kvars>>

\* the library rejects the command that was held back
queued_rejects(p) ==
    /\ Idle(p) /\ early[p] # "none"
    /\ ~ Connected
    /\ task' = [task EXCEPT ![p] =
                  [NewTask(early[p], Undef, <<>>, NoDoc) EXCEPT
                      !.pc = "done", !.ret = RetError("ClientError")]]
    /\ calls' = calls + 1
    /\ UNCHANGED <<variant, store, issued, created, client, early>>
    /\ UNCHANGED <<mvars, qvars, kvars>>

\* caller p can run method op now: it calls it, or op is the method whose
\* command was held back
Runs(p, op) == early[p] \in {"none", op}


(***************************************************************************)
(* Faults of the environment: another program writes a text that is not    *)
(* JSON under a key of the collection, and a store command fails.          *)
(***************************************************************************)
\* between two calls, another client of the store sets key to a text that is
\* not JSON
foreign_set(key) ==
    /\ \A p \in Procs : Idle(p)
    /\ store' = StoreSet(store, key, Malformed)
    /\ created' = Touch(key)
    /\ issued' = issued \cup {key}
    /\ UNCHANGED <<variant, task, calls>>
    /\ UNCHANGED <<mvars, qvars, cvars, kvars>>

\* updateMany: `await this.redis.set(...)` rejects; the loop has no try
\* block, the rejection leaves the method.  The locals stay as they were:
\* count is the number of turns completed, docs starts at the document of
\* the failed turn.
many_set_fails(p) ==
    /\ task[p].pc = "many_set"
    /\ task' = [task EXCEPT ![p].pc = "done",
                            ![p].ret = RetError("StoreError")]
    /\ UNCHANGED <<variant, store, calls, issued, created>>
    /\ UNCHANGED <<mvars, qvars, cvars, kvars>>

\* deleteMany: `await this.redis.del(...)` rejects
many_del_fails(p) ==
    /\ task[p].pc = "many_del"
    /\ task' = [task EXCEPT ![p].pc = "done",
                            ![p].ret = RetError("StoreError")]
    /\ UNCHANGED <<variant, store, calls, issued, created>>
    /\ UNCHANGED <<mvars, qvars, cvars, kvars>>

(***************************************************************************)
(* SpecMatch: the evaluator applied to a document and a query drawn from   *)
(* bounded sets.  Documents are as the store returns them (JSON values: a  *)
(* number, a string, null, or the field absent); operands are JSON values. *)
(***************************************************************************)
Nums == {Num(k) : k \in 1..MaxNum}
Strs == {Str(i) : i \in 1..MaxStr}
\* what a decoded document holds in a data field (Undef: the field is absent)
FieldVals == {Undef, Null} \cup Nums \cup Strs
\* what a query holds as literal or operand
OperandVals == {Null} \cup Nums \cup Strs
ArrayOperands == SUBSET {Num(1), Str(1)}

OpEntries ==
    {ScalarOp(o, v) : o \in ScalarOpNames, v \in OperandVals}
    \cup {ArrayOp(o, a) : o \in ArrayOpNames, a \in ArrayOperands}
    \cup {ScalarOp(o, Num(1)) : o \in UnknownOpNames}

\* operator objects of exactly k keys, no key twice
RECURSIVE OpSeqs(_)
OpSeqs(k) ==
    IF k = 0 THEN {<<>>}
    ELSE {Append(s, e) : s \in OpSeqs(k - 1), e \in OpEntries}

DistinctOps(s) == \A i, j \in DOMAIN s : i # j => s[i].op # s[j].op

OpObjects(k) == {Ops(s) : s \in {x \in OpSeqs(k) : DistinctOps(x)}}
Literals == {Lit(v) : v \in OperandVals}

\* conditions with at most k operator keys
RECURSIVE CondsUpTo(_)
CondsUpTo(k) ==
    IF k = 0 THEN Literals \cup OpObjects(0)
    ELSE CondsUpTo(k - 1) \cup OpObjects(k)

Entry(f, c) == [field |-> f, cond |-> c]

\* queries on at most two fields holding at most MaxOps operator keys in all
MatchQueries ==
    {<<>>}
    \cup {<<Entry(f, c)>> : f \in DataFields, c \in CondsUpTo(MaxOps)}
    \cup {<<Entry(p[1], c), Entry(p[2], d)>> :
            p \in {x \in DataFields \X DataFields : x[1] # x[2]},
            c \in CondsUpTo(MaxOps - 1), d \in CondsUpTo(MaxOps - 1)}

MatchDocs == [FieldNames -> FieldVals]

\* the QueryBuilder variables while another specification runs
QBIdle ==
    /\ qData = <<>>
    /\ qArgs = [S |-> <<>>, k |-> 0, n |-> 0]
    /\ qb = NewQueryBuilder
    /\ qCalls = <<>>
    /\ qResult = <<>>
    /\ qDone = FALSE

\* the evaluator variables while another specification runs
MatchIdle ==
    /\ mVariant = "none"
    /\ mDoc = [f \in FieldNames |-> Undef]
    /\ mQuery = <<>>
    /\ mResult = FALSE
    /\ mDone = FALSE

InitMatch ==
    /\ QBIdle /\ StoreIdle
    /\ mVariant = "none"
    /\ mDoc \in {d \in MatchDocs : d["id"] = Str(1)}
    /\ mQuery \in MatchQueries
    /\ mResult = FALSE
    /\ mDone = FALSE

\* one call of the evaluator of variant v
Evaluate(v) ==
    /\ ~ mDone
    /\ mVariant' = v
    /\ mResult' = Evaluator(v, mDoc, mQuery)
    /\ mDone' = TRUE
    /\ UNCHANGED <<mDoc, mQuery>>
    /\ UNCHANGED <<qvars, svars, kvars>>

NextMatch == \E v \in Variants : Evaluate(v)

SpecMatch == InitMatch /\ [][NextMatch]_vars


(***************************************************************************)
(* SpecQB: a QueryBuilder over a fetched array; the caller chains sort(S), *)
(* skip(k) and limit(n), each at most once and in any order, and calls     *)
(* exec().                                                                 *)
(***************************************************************************)
SortEntry(key, dir) == [key |-> key, dir |-> dir]
SortEntries == {SortEntry(key, dir) : key \in DataFields, dir \in {1, -1}}
SortSpecs ==
    {<<>>}
    \cup {<<e>> : e \in SortEntries}
    \cup {<<e[1], e[2]>> :
            e \in {x \in SortEntries \X SortEntries : x[1].key # x[2].key}}

\* the i-th document a scan returns: its id is the i-th id
ScanDoc(i, name, age) == [id |-> Str(i), name |-> name, age |-> age]

RECURSIVE FetchedArrays(_)
FetchedArrays(len) ==
    IF len = 0 THEN {<<>>}
    ELSE {Append(s, ScanDoc(len, name, age)) :
            s \in FetchedArrays(len - 1), name \in Strs, age \in Nums}

InitQB ==
    /\ MatchIdle /\ StoreIdle
    /\ qData \in UNION {FetchedArrays(len) : len \in 0..MaxData}
    /\ qArgs \in [S : SortSpecs, k : (-1)..MaxSkip, n : 0..MaxLimit]
    /\ qb = NewQueryBuilder
    /\ qCalls = <<>>
    /\ qResult = <<>>
    /\ qDone = FALSE

Chained(m) == \E i \in DOMAIN qCalls : qCalls[i] = m

\* .sort(S)
QB_sort ==
    /\ ~ qDone /\ ~ Chained("sort")
    /\ qb' = sort(qb, qArgs.S)
    /\ qCalls' = Append(qCalls, "sort")
    /\ UNCHANGED <<qData, qArgs, qResult, qDone>>
    /\ UNCHANGED <<mvars, svars, kvars>>

\* .limit(n)
QB_limit ==
    /\ ~ qDone /\ ~ Chained("limit")
    /\ qb' = limit(qb, qArgs.n)
    /\ qCalls' = Append(qCalls, "limit")
    /\ UNCHANGED <<qData, qArgs, qResult, qDone>>
    /\ UNCHANGED <<mvars, svars, kvars>>

\* .skip(k)
QB_skip ==
    /\ ~ qDone /\ ~ Chained("skip")
    /\ qb' = skip(qb, qArgs.k)
    /\ qCalls' = Append(qCalls, "skip")
    /\ UNCHANGED <<qData, qArgs, qResult, qDone>>
    /\ UNCHANGED <<mvars, svars, kvars>>

\* .exec()
QB_exec ==
    /\ ~ qDone
    /\ qResult' = exec(qb, qData)
    /\ qDone' = TRUE
    /\ UNCHANGED <<qData, qArgs, qb, qCalls>>
    /\ UNCHANGED <<mvars, svars, kvars>>

NextQB == QB_sort \/ QB_limit \/ QB_skip \/ QB_exec

SpecQB == InitQB /\ [][NextQB]_vars

\* the first k elements of a sequence dropped (none when k <= 0)
Dropped(s, k) == [i \in 1..Max(Len(s) - Max(k, 0), 0) |-> s[i + Max(k, 0)]]
\* a sequence truncated to its first n elements
Truncated(s, n) == [i \in 1..Min(Len(s), n) |-> s[i]]

\* C3: whatever the order in which sort(S), skip(k) and limit(n) were
\* chained, exec() resolves to the fetched array sorted by S, then with the
\* first k elements dropped, then truncated to n elements (a method that was
\* not chained contributes nothing).
C3_ExecIsSortSkipLimit ==
    qDone =>
        qResult =
            LET sorted == IF Chained("sort") THEN ArraySort(qData, qArgs.S)
                          ELSE qData
                skipped == IF Chained("skip") THEN Dropped(sorted, qArgs.k)
                           ELSE sorted
            IN  IF Chained("limit") THEN Truncated(skipped, qArgs.n)
                ELSE skipped

\* exec() ran after limit, skip and sort were chained in this order, which is
\* the reverse of the order of evaluation, and each of the three changed the
\* result: the sort reordered, the skip dropped, the limit truncated.
C3_Witness ==
    /\ qDone
    /\ qCalls = <<"limit", "skip", "sort">>
    /\ ArraySort(qData, qArgs.S) # qData
    /\ qArgs.k = 1
    /\ qArgs.n = 1
    /\ Len(qData) = 3
    /\ qResult = <<ArraySort(qData, qArgs.S)[2]>>
    /\ qResult # <<qData[2]>>



\* the result set exec() works on after its sort stage
SortedSet == IF Chained("sort") THEN ArraySort(qData, qArgs.S) ELSE qData

\* the elements of s at the 0-based positions from .. to-1
Window(s, from, to) == [i \in 1..Max(to - from, 0) |-> s[from + i]]

\* whether p is a prefix of s
IsPrefix(p, s) == Len(p) <= Len(s) /\ \A i \in DOMAIN p : p[i] = s[i]

\* exec() returned the window of the sorted result that skip and limit select
ReturnsTheWindow ==
    LET m == Len(SortedSet)
        k == IF Chained("skip") THEN Max(qArgs.k, 0) ELSE 0
        skipped == Window(SortedSet, Min(k, m), m)
    IN  /\ qResult = IF Chained("limit")
                     THEN Window(SortedSet, Min(k, m), Min(k + qArgs.n, m))
                     ELSE skipped
        /\ (Chained("skip") /\ qArgs.k <= 0 /\ ~ Chained("limit"))
              => qResult = SortedSet
        /\ Chained("limit") => Len(qResult) <= qArgs.n
        /\ IsPrefix(qResult, skipped)

RECURSIVE FirstDifference(_, _, _)
FirstDifference(a, b, sortKeys) ==
    IF sortKeys = <<>> THEN <<>>
    ELSE IF a[Head(sortKeys).key] # b[Head(sortKeys).key] THEN <<Head(sortKeys)>>
    ELSE FirstDifference(a, b, Tail(sortKeys))

\* the place of document d in the fetched array (the scan order)
ScanIndex(d) == CHOOSE i \in DOMAIN qData : qData[i] = d

\* C22: sort(S) alone yields a permutation of the fetched documents in which,
\* of any two, the one that comes first is the smaller on the first key of S
\* on which they differ when its direction is 1, the greater when it is -1,
\* and the earlier in scan order when they differ on no key of S.  (The
\* values of a key are all strings or all numbers, so that < and > order
\* them.)
C22_SortIsStableMultiKey ==
    (qDone /\ qCalls = <<"sort">>) =>
        /\ Len(qResult) = Len(qData)
        /\ {qResult[i] : i \in DOMAIN qResult} = {qData[i] : i \in DOMAIN qData}
        /\ \A i, j \in DOMAIN qResult :
              i < j =>
                  LET a == qResult[i]
                      b == qResult[j]
                      d == FirstDifference(a, b, qArgs.S)
                  IN  IF d = <<>> THEN ScanIndex(a) < ScanIndex(b)
                      ELSE IF d[1].dir = 1 THEN a[d[1].key].n < b[d[1].key].n
                      ELSE a[d[1].key].n > b[d[1].key].n

\* sort({age: -1, name: 1}) has run on three documents fetched as (1, "a"),
\* (2, "b"), (2, "a"): the two of age 2 come first, ordered by name, as in
\* the scenario Charlie(40) before Bob(30)
C22_Witness ==
    /\ qDone /\ qCalls = <<"sort">>
    /\ qArgs.S = <<SortEntry("age", -1), SortEntry("name", 1)>>
    /\ Len(qData) = 3
    /\ qData[1]["age"] = Num(1) /\ qData[1]["name"] = Str(1)
    /\ qData[2]["age"] = Num(2) /\ qData[2]["name"] = Str(2)
    /\ qData[3]["age"] = Num(2) /\ qData[3]["name"] = Str(1)
    /\ qResult = <<qData[3], qData[2], qData[1]>>

(***************************************************************************)
(* SpecSeq: one caller, who calls the methods of the collection one after  *)
(* the other (no two operations overlap).  SpecConc: two callers whose     *)
(* operations interleave at their store calls.                             *)
(***************************************************************************)
QAll == <<>>
QAgeLt2 == <<Entry("age", Ops(<<ScalarOp("$lt", Num(2))>>))>>
QNameA == <<Entry("name", Lit(Str(1)))>>
StoreQueries == {QAll, QAgeLt2, QNameA}

Partial(f, v) == [NoDoc EXCEPT ![f] = v]
Partials ==
    {NoDoc, Partial("age", Num(2)), Partial("age", NaN),
     Partial("name", Str(2)), Partial("id", Str(1)), Partial("id", Str(0))}

\* what callers pass to create; Model.create does not read data._id
CreateInputs(v) ==
    [id : IF v = "Model" THEN {Undef} ELSE {Undef, Null, Str(0), Str(1)},
     name : {Undef, Str(1)},
     age : {Num(1), Num(2), NaN}]

IdArgs == IdPool

InitStore ==
    /\ CollIdle
    /\ variant \in Variants
    /\ store = EmptyStore
    /\ task = [p \in Procs |-> IdleTask]
    /\ calls = 0
    /\ issued = {}
    /\ created = EmptyStore
    /\ client = "ready"
    /\ early = [p \in Procs |-> "none"]

InitSeq == MatchIdle /\ QBIdle /\ InitStore

NextSeq ==
    \/ \E d \in CreateInputs(variant) : create(1, d)
    \/ \E id \in IdArgs : findById(1, id)
    \/ \E id \in IdArgs, d \in Partials : update_get(1, id, d)
    \/ update_set(1)
    \/ \E id \in IdArgs : delete(1, id)
    \/ \E q \in StoreQueries : find(1, q)
    \/ \E q \in StoreQueries : findOne(1, q)
    \/ \E q \in StoreQueries : countDocuments(1, q)
    \/ \E q \in StoreQueries, d \in Partials : updateMany(1, q, d)
    \/ \E q \in StoreQueries : deleteMany(1, q)
    \/ \E q \in StoreQueries, d \in Partials : updateOne(1, q, d)
    \/ \E q \in StoreQueries, d \in Partials, r \in BOOLEAN :
          findOneAndUpdate(1, q, d, r)
    \/ \E q \in StoreQueries : deleteOne(1, q)
    \/ \E q \in StoreQueries : findOneAndDelete(1, q)
    \/ scan_get(1)
    \/ many_set(1)
    \/ many_del(1)
    \/ one_set(1)
    \/ one_del(1)
    \/ return(1)

SpecSeq == InitSeq /\ [][NextSeq]_vars

ConcQueries == {QAll}
ConcPartials == {Partial("age", Num(2)), Partial("name", Str(2))}
ConcCreateInputs == [id : {Undef}, name : {Str(1)}, age : {Num(1)}]

InitConc == MatchIdle /\ QBIdle /\ InitStore

NextConc ==
    \E p \in Procs :
        \/ \E d \in ConcCreateInputs : create(p, d)
        \/ \E id \in IdArgs, d \in ConcPartials : update_get(p, id, d)
        \/ update_set(p)
        \/ \E id \in IdArgs : delete(p, id)
        \/ \E q \in ConcQueries : find(p, q)
        \/ \E q \in ConcQueries, d \in ConcPartials : updateMany(p, q, d)
        \/ \E q \in ConcQueries : deleteMany(p, q)
        \/ \E q \in ConcQueries : deleteOne(p, q)
        \/ scan_get(p)
        \/ many_set(p)
        \/ many_del(p)
        \/ one_del(p)
        \/ return(p)

SpecConc == InitConc /\ [][NextConc]_vars



(***************************************************************************)
(* SpecScan: two callers of a collection whose documents were written by   *)
(* create before (the store outlives the program); one scans while the     *)
(* other deletes.                                                          *)
(***************************************************************************)
ScanCreateInputs == [id : {Undef}, name : {Str(1)}, age : {Num(1), Num(2)}]
ScanQueries == {QAll, QAgeLt2}

\* the document create(data) stores when uuidv4() yields id
CreatedDoc(v, id, data) ==
    IF v = "Model" THEN NewDoc_Model(id, data) ELSE NewDoc_RedisModel(id, data)

InitScan ==
    /\ MatchIdle /\ QBIdle /\ CollIdle
    /\ variant \in Variants
    /\ \E d \in [IdPool -> ScanCreateInputs] :
          /\ store = [k \in {getKey(id) : id \in IdPool} |->
                        LET id == CHOOSE i \in IdPool : getKey(i) = k
                        IN  JSONstringify(CreatedDoc(variant, id, d[id]))]
          /\ created = [k \in {getKey(id) : id \in IdPool} |->
                        LET id == CHOOSE i \in IdPool : getKey(i) = k
                        IN  CreatedDoc(variant, id, d[id])]
    /\ task = [p \in Procs |-> IdleTask]
    /\ calls = 0
    /\ issued = IdPool
    /\ client = "ready"
    /\ early = [p \in Procs |-> "none"]

NextScan ==
    \E p \in Procs :
        \/ \E q \in ScanQueries : find(p, q)
        \/ \E q \in ScanQueries : countDocuments(p, q)
        \/ \E id \in IdArgs : delete(p, id)
        \/ \E q \in ScanQueries : deleteMany(p, q)
        \/ scan_get(p)
        \/ many_del(p)
        \/ return(p)

SpecScan == InitScan /\ [][NextScan]_vars

(***************************************************************************)
(* SpecColl: one caller of several collections over the same store.  Here  *)
(* a key is the text `${name}:${id}`, a sequence of characters, and each   *)
(* call runs to its end before the next is made.                           *)
(***************************************************************************)
\* collection names: "U", "U:a" (the first followed by ":" is a prefix of
\* the second) and "V"
CollNames == {<<"U">>, <<"U", ":", "a">>, <<"V">>}

\* an id a caller passes that contains ":"
ColonId == Str(MaxId + 1)

\* the characters of an id: the generated ones are "1" and "2", the caller's
\* is "a:1"
Text(id) ==
    CASE id = ColonId -> <<"a", ":", "1">>
      [] id = Str(1) -> <<"1">>
      [] id = Str(2) -> <<"2">>
      [] OTHER -> <<"3">>

\* `${this.name}:${id}`
CollKey(name, id) == name \o <<":">> \o Text(id)

\* whether KEYS `${this.name}:*` returns key
KeysPattern(name, key) ==
    /\ Len(key) >= Len(name) + 1
    /\ SubSeq(key, 1, Len(name) + 1) = name \o <<":">>

\* the loop of find over the keys ks: get, JSON.parse, match, push
RECURSIVE Fetch(_, _, _, _)
Fetch(v, st, ks, query) ==
    IF ks = <<>> THEN <<>>
    ELSE LET doc == JSONparse(st[Head(ks)])
             rest == Fetch(v, st, Tail(ks), query)
         IN  IF Evaluator(v, doc, query) THEN <<doc>> \o rest ELSE rest

\* the documents the loops of updateMany and deleteMany act on
Acted(v, docs) == SelectSeq(docs, LAMBDA d : v = "Model" \/ Truthy(d["id"]))

\* the store after the loop of updateMany over docs
RECURSIVE SetEach(_, _, _, _)
SetEach(name, st, docs, data) ==
    IF docs = <<>> THEN st
    ELSE SetEach(name,
                 StoreSet(st, CollKey(name, Head(docs)["id"]),
                          JSONstringify(Assign(Head(docs), data))),
                 Tail(docs), data)

\* the store after the loop of deleteMany over docs
RECURSIVE DelEach(_, _, _)
DelEach(name, st, docs) ==
    IF docs = <<>> THEN st
    ELSE DelEach(name, StoreDel(st, CollKey(name, Head(docs)["id"])),
                 Tail(docs))

\* kOwner once the call on collection name has changed the store to st
Owners(name, st) ==
    [k \in DOMAIN st |->
        IF k \in DOMAIN store /\ st[k] = store[k] THEN kOwner[k] ELSE name]

CollCreateInputs(v) ==
    [id : IF v = "Model" THEN {Undef} ELSE {Undef, ColonId},
     name : {Str(1)},
     age : {Num(1)}]
CollQueries == {QAll, QAgeLt2}
CollPartials == {Partial("age", Num(2))}

InitColl ==
    /\ MatchIdle /\ QBIdle /\ CollIdle
    /\ variant \in Variants
    /\ store = EmptyStore
    /\ task = [p \in Procs |-> IdleTask]
    /\ calls = 0
    /\ issued = {}
    /\ created = EmptyStore
    /\ client = "ready"
    /\ early = [p \in Procs |-> "none"]

\* a call of op on the collection name that resolved to ret and left the
\* store as st
Called(op, name, query, ret, st) ==
    /\ calls < MaxCalls
    /\ kCall' = [op |-> op, name |-> name, query |-> query, pre |-> store,
                 owner |-> kOwner, ret |-> ret]
    /\ store' = st
    /\ kOwner' = Owners(name, st)
    /\ calls' = calls + 1
    /\ UNCHANGED <<variant, task, created, client, early>>
    /\ UNCHANGED <<mvars, qvars>>

coll_create(name, data) ==
    \E id \in IF variant # "Model" /\ KeepsCallerId(variant, data)
              THEN {data["id"]} ELSE FreshIds :
        LET doc == CreatedDoc(variant, id, data)
        IN  /\ Called("create", name, <<>>, RetDoc(doc),
                      StoreSet(store, CollKey(name, id), JSONstringify(doc)))
            /\ issued' = issued \cup {id}

coll_find(name, query) ==
    \E ks \in Enumerations({k \in DOMAIN store : KeysPattern(name, k)}) :
        LET results == Fetch(variant, store, ks, query)
            found == IF variant = "Model" THEN exec(NewQueryBuilder, results)
                     ELSE results
        IN  /\ Called("find", name, query, RetDocs(found), store)
            /\ UNCHANGED issued

coll_countDocuments(name, query) ==
    \E ks \in Enumerations({k \in DOMAIN store : KeysPattern(name, k)}) :
        /\ Called("countDocuments", name, query,
                  RetCount(Len(Fetch(variant, store, ks, query))), store)
        /\ UNCHANGED issued

coll_updateMany(name, query, data) ==
    \E ks \in Enumerations({k \in DOMAIN store : KeysPattern(name, k)}) :
        LET docs == Acted(variant, Fetch(variant, store, ks, query))
        IN  /\ Called("updateMany", name, query, RetCount(Len(docs)),
                      SetEach(name, store, docs, data))
            /\ UNCHANGED issued

coll_deleteMany(name, query) ==
    \E ks \in Enumerations({k \in DOMAIN store : KeysPattern(name, k)}) :
        LET docs == Acted(variant, Fetch(variant, store, ks, query))
        IN  /\ Called("deleteMany", name, query, RetCount(Len(docs)),
                      DelEach(name, store, docs))
            /\ UNCHANGED issued

NextColl ==
    \E name \in CollNames :
        \/ \E d \in CollCreateInputs(variant) : coll_create(name, d)
        \/ \E q \in CollQueries : coll_find(name, q)
        \/ \E q \in CollQueries : coll_countDocuments(name, q)
        \/ \E q \in CollQueries, d \in CollPartials : coll_updateMany(name, q, d)
        \/ \E q \in CollQueries : coll_deleteMany(name, q)

SpecColl == InitColl /\ [][NextColl]_vars

(***************************************************************************)
(* SpecConn: one caller of the classes built on redis-client, from before  *)
(* connectRedis is called.                                                 *)
(***************************************************************************)
InitConn ==
    /\ MatchIdle /\ QBIdle /\ CollIdle
    /\ variant \in {"RedisModel", "Lite"}
    /\ store = EmptyStore
    /\ task = [p \in Procs |-> IdleTask]
    /\ calls = 0
    /\ issued = {}
    /\ created = EmptyStore
    /\ client = "null"
    /\ early = [p \in Procs |-> "none"]

NextConn ==
    \/ connectRedis
    \/ \E outcome \in {"ready", "failed"} : connect_settles(outcome)
    \/ \E op \in Methods(variant) : call_uninitialized(1, op)
    \/ \E op \in Methods(variant) : call_unconnected(1, op)
    \/ queued_rejects(1)
    \/ \E d \in ConcCreateInputs : Runs(1, "create") /\ create(1, d)
    \/ \E id \in IdArgs : Runs(1, "findById") /\ findById(1, id)
    \/ \E q \in ConcQueries : Runs(1, "find") /\ find(1, q)
    \/ \E q \in ConcQueries : Runs(1, "findOne") /\ findOne(1, q)
    \/ \E q \in ConcQueries : Runs(1, "countDocuments") /\ countDocuments(1, q)
    \/ \E q \in ConcQueries, d \in ConcPartials :
          Runs(1, "updateMany") /\ updateMany(1, q, d)
    \/ \E q \in ConcQueries, d \in ConcPartials :
          Runs(1, "updateOne") /\ updateOne(1, q, d)
    \/ \E q \in ConcQueries, d \in ConcPartials, rn \in BOOLEAN :
          Runs(1, "findOneAndUpdate") /\ findOneAndUpdate(1, q, d, rn)
    \/ \E q \in ConcQueries : Runs(1, "deleteMany") /\ deleteMany(1, q)
    \/ \E q \in ConcQueries : Runs(1, "deleteOne") /\ deleteOne(1, q)
    \/ \E q \in ConcQueries :
          Runs(1, "findOneAndDelete") /\ findOneAndDelete(1, q)
    \/ scan_get(1)
    \/ many_set(1)
    \/ many_del(1)
    \/ one_set(1)
    \/ one_del(1)
    \/ return(1)

SpecConn == InitConn /\ [][NextConn]_vars


(***************************************************************************)
(* SpecFault: one caller, with the faults of the environment.              *)
(***************************************************************************)
FaultCreateInputs(v) ==
    [id : IF v = "RedisModel" THEN {Undef, Str(0)} ELSE {Undef},
     name : {Str(1)},
     age : {Num(1), Num(2)}]
FaultPartials == {Partial("age", Num(2)), Partial("name", Str(2))}
FaultQueries == {QAll, QAgeLt2}

InitFault == MatchIdle /\ QBIdle /\ InitStore

NextFault ==
    \/ \E d \in FaultCreateInputs(variant) : create(1, d)
    \/ \E key \in IdPool : foreign_set(getKey(key))
    \/ \E id \in IdArgs : findById(1, id)
    \/ \E q \in FaultQueries : find(1, q)
    \/ \E q \in FaultQueries : findOne(1, q)
    \/ \E q \in FaultQueries : countDocuments(1, q)
    \/ \E q \in FaultQueries, d \in FaultPartials : updateMany(1, q, d)
    \/ \E q \in FaultQueries : deleteMany(1, q)
    \/ scan_get(1)
    \/ many_set(1)
    \/ many_set_fails(1)
    \/ many_del(1)
    \/ many_del_fails(1)
    \/ return(1)

SpecFault == InitFault /\ [][NextFault]_vars

(***************************************************************************)
(* Claims about the collection over the store.                             *)
(***************************************************************************)
\* a document all of whose values JSON can represent
JsonRepresentable(doc) == \A f \in FieldNames : doc[f] # NaN

\* the task of the one caller of SpecSeq has finished a call of op
Finished(op) == task[1].op = op /\ task[1].pc = "done"

Stored(st, k) == JSONparse(st[k])

\* every key but k holds in the store what it held when the call was made
OthersUnchanged(k) ==
    /\ DOMAIN store \ {k} = DOMAIN task[1].pre \ {k}
    /\ \A j \in DOMAIN store \ {k} : store[j] = task[1].pre[j]

\* update(id, P) on an existing document stored the shallow merge, returned
\* it, and left the other documents alone
UpdateMerged ==
    LET k == getKey(task[1].id)
        P == task[1].data
    IN  /\ Has(store, k)
        /\ \A f \in FieldNames :
              Stored(store, k)[f] = IF P[f] # Undef THEN P[f]
                                    ELSE Stored(task[1].pre, k)[f]
        /\ task[1].ret = RetDoc(Stored(store, k))
        /\ OthersUnchanged(k)
        /\ (P = NoDoc => store = task[1].pre)

C8_AbsentIdIsNullAndNoWrite ==
    ((Finished("findById") \/ Finished("update"))
        /\ ~ Has(task[1].pre, getKey(task[1].id)))
        => (task[1].ret = RetNull /\ store = task[1].pre)

\* update on an id that is not stored has finished, with another document in
\* the store and a partial that is not empty.
C8_Witness ==
    /\ Finished("update")
    /\ ~ Has(task[1].pre, getKey(task[1].id))
    /\ task[1].data = Partial("age", Num(2))
    /\ task[1].ret = RetNull
    /\ store # EmptyStore

\* the keys of st whose document query accepts
Matching(st, query) ==
    {k \in DOMAIN st : Evaluator(variant, Stored(st, k), query)}

\* how often d occurs in the sequence s
Occurrences(s, d) == Cardinality({i \in DOMAIN s : s[i] = d})

\* C2: run alone, find(Q) resolves to exactly the stored documents the
\* evaluator accepts for Q, each as often as it is stored (with the empty
\* query: every stored document, once each).
C2_FindIsFilter ==
    Finished("find") =>
        LET docs == task[1].ret.docs
            pre == task[1].pre
            Q == task[1].query
        IN  /\ Len(docs) = Cardinality(Matching(pre, Q))
            /\ \A k \in DOMAIN pre :
                  Occurrences(docs, Stored(pre, k)) =
                      Cardinality({j \in Matching(pre, Q) :
                                      Stored(pre, j) = Stored(pre, k)})
            /\ (Q = QAll => Len(docs) = Cardinality(DOMAIN pre))

\* find({age: {$lt: 2}}) has finished on a store of two documents and
\* returned one of them, the other having age 2.
C2_Witness ==
    /\ Finished("find")
    /\ task[1].query = QAgeLt2
    /\ Cardinality(DOMAIN task[1].pre) = 2
    /\ Len(task[1].ret.docs) = 1
    /\ task[1].ret.docs[1]["age"] = Num(1)
    /\ \E k \in DOMAIN task[1].pre : Stored(task[1].pre, k)["age"] = Num(2)

\* C10: run alone, updateMany(Q, P) (P of JSON values) stores the shallow
\* merge of P for exactly the documents that match Q, leaves the others
\* unchanged, adds and removes no key, and returns the number of matches.
C10_UpdateManyUpdatesTheMatches ==
    (Finished("updateMany") /\ JsonRepresentable(task[1].data)) =>
        LET pre == task[1].pre
            Q == task[1].query
        IN  /\ DOMAIN store = DOMAIN pre
            /\ \A k \in DOMAIN pre :
                  IF k \in Matching(pre, Q)
                  THEN Stored(store, k) = Assign(Stored(pre, k), task[1].data)
                  ELSE store[k] = pre[k]
            /\ task[1].ret = RetCount(Cardinality(Matching(pre, Q)))

\* C10, in the states where every stored document carries the id of its key
\* and that id is not empty
C10_UpdateManyOnIntactIds ==
    (Finished("updateMany") /\ JsonRepresentable(task[1].data)
        /\ \A k \in DOMAIN task[1].pre :
              Stored(task[1].pre, k)["id"] = k /\ Truthy(k))
        =>  LET pre == task[1].pre
                Q == task[1].query
            IN  /\ DOMAIN store = DOMAIN pre
                /\ \A k \in DOMAIN pre :
                      IF k \in Matching(pre, Q)
                      THEN Stored(store, k) = Assign(Stored(pre, k), task[1].data)
                      ELSE store[k] = pre[k]
                /\ task[1].ret = RetCount(Cardinality(Matching(pre, Q)))

\* C9: delete(id) and deleteOne(query) resolve to the number of keys the call
\* removed from the store, also when another delete runs at the same time.
C9_DeleteReturnsKeysRemoved ==
    \A p \in Procs :
        (task[p].op \in {"delete", "deleteOne"} /\ task[p].pc = "done")
            => task[p].ret = RetCount(task[p].removed)

\* C9, for Model.delete alone
C9_ModelDeleteReturnsKeysRemoved ==
    \A p \in Procs :
        (task[p].op = "delete" /\ task[p].pc = "done")
            => task[p].ret = RetCount(task[p].removed)


\* every document of st carries the id of its key, and that id is not empty
IntactIds(st) == \A k \in DOMAIN st : Stored(st, k)["id"] = k /\ Truthy(k)

\* deleteMany(Q) removed the matches of Q, and only them, and counted them
DeletedTheMatches ==
    LET pre == task[1].pre
        M == Matching(pre, task[1].query)
    IN  /\ DOMAIN store = DOMAIN pre \ M
        /\ \A k \in DOMAIN store : store[k] = pre[k]
        /\ task[1].ret = RetCount(Cardinality(M))
        /\ (M = {} => store = pre /\ task[1].ret = RetCount(0))

\* C11: run alone, deleteMany(Q) removes exactly the stored documents that
\* match Q, leaves the others intact and returns the number of matches; with
\* no match it returns 0 and the store is unchanged.
C11_DeleteManyDeletesTheMatches ==
    Finished("deleteMany") => DeletedTheMatches

\* C11, in the states where every stored document carries the non-empty id of
\* its key
C11_DeleteManyOnIntactIds ==
    (Finished("deleteMany") /\ IntactIds(task[1].pre)) => DeletedTheMatches

\* findOneAndUpdate(Q, P, options) merged P into one match of Q and returned
\* the document before or after the merge; or found no match
FoundOneAndUpdated ==
    LET pre == task[1].pre
        M == Matching(pre, task[1].query)
    IN  IF M = {}
        THEN task[1].ret = RetNull /\ store = pre
        ELSE \E k \in M :
                /\ Has(store, k)
                /\ Stored(store, k) = Assign(Stored(pre, k), task[1].data)
                /\ OthersUnchanged(k)
                /\ task[1].ret = IF task[1].returnNew
                                 THEN RetDoc(Stored(store, k))
                                 ELSE RetDoc(Stored(pre, k))

\* C12: findOneAndUpdate(Q, P, options) (P of JSON values) with a match
\* stores the shallow merge of P into the first match and returns the
\* document as it was before (returnNew false or omitted) or as it is now
\* stored (returnNew true); with no match it returns null and writes nothing.
C12_FindOneAndUpdate ==
    (Finished("findOneAndUpdate") /\ JsonRepresentable(task[1].data))
        => FoundOneAndUpdated

\* C12, in the states where every stored document carries the non-empty id of
\* its key
C12_FindOneAndUpdateOnIntactIds ==
    (Finished("findOneAndUpdate") /\ JsonRepresentable(task[1].data)
        /\ IntactIds(task[1].pre))
        => FoundOneAndUpdated

\* findOneAndDelete(Q) removed one match of Q and returned it; or found no
\* match
FoundOneAndDeleted ==
    LET pre == task[1].pre
        M == Matching(pre, task[1].query)
    IN  IF M = {}
        THEN task[1].ret = RetNull /\ store = pre
        ELSE \E k \in M :
                /\ task[1].ret = RetDoc(Stored(pre, k))
                /\ store = StoreDel(pre, k)
                /\ findById_result(store, task[1].ret.doc["id"]) = RetNull

\* C13: findOneAndDelete(Q) removes exactly one document, the first match of
\* Q, and returns it as it was stored; afterwards findById of its id returns
\* null and every other document is unchanged; with no match it returns null
\* and the store is unchanged.
C13_FindOneAndDelete ==
    Finished("findOneAndDelete") => FoundOneAndDeleted

\* C13, in the states where every stored document carries the non-empty id of
\* its key
C13_FindOneAndDeleteOnIntactIds ==
    (Finished("findOneAndDelete") /\ IntactIds(task[1].pre))
        => FoundOneAndDeleted

\* C14: create on an id that addresses a stored document overwrites it: the
\* stored entry becomes the encoding of the created document (a field of the
\* old document that the input does not supply is gone), no key is added or
\* removed, and the same create issued on the resulting store leaves it as
\* it is.
C14_CreateOverwrites ==
    (Finished("create") /\ task[1].ret.kind = "doc"
        /\ Has(task[1].pre, getKey(task[1].ret.doc["id"])))
        => LET k == getKey(task[1].ret.doc["id"])
               doc == task[1].ret.doc
           IN  /\ store[k] = JSONstringify(doc)
               /\ \A f \in DataFields :
                     Nullish(task[1].data[f]) => Nullish(Stored(store, k)[f])
               /\ DOMAIN store = DOMAIN task[1].pre
               /\ OthersUnchanged(k)
               /\ StoreSet(store, k, JSONstringify(doc)) = store

\* create({id, age}) has finished on an id whose stored document had a name:
\* the name is gone, and there are as many documents as before.
C14_Witness ==
    /\ Finished("create")
    /\ task[1].ret.kind = "doc"
    /\ Has(task[1].pre, getKey(task[1].ret.doc["id"]))
    /\ Stored(task[1].pre, getKey(task[1].ret.doc["id"]))["name"] = Str(1)
    /\ task[1].data["name"] = Undef
    /\ Stored(store, getKey(task[1].ret.doc["id"]))["name"] = Undef
    /\ Cardinality(DOMAIN store) = Cardinality(DOMAIN task[1].pre)

\* C15: the document stored under the key of k has k as its identity field,
\* whatever was created, updated and deleted.
C15_IdentityFieldIsTheKey ==
    \A k \in DOMAIN store : Stored(store, k)["id"] = k

\* C16: every document create has persisted has an identity field that is
\* present and not empty.
C16_CreatedIdIsNotEmpty ==
    \A k \in DOMAIN created :
        /\ Truthy(created[k]["id"])
        /\ Has(store, k) /\ Truthy(Stored(store, k)["id"])

\* C16, for Model.create and the create of src/src/redis-orm.ts
C16_CreatedIdIsNotEmptyButInRedisModel ==
    variant # "RedisModel" =>
        \A k \in DOMAIN created :
            /\ Truthy(created[k]["id"])
            /\ Has(store, k) /\ Truthy(Stored(store, k)["id"])


\* caller p has completed update(k, P) or updateMany(Q, P) with success, on a
\* store that held k, P naming field f only
Updated(p, k, f) ==
    /\ task[p].pc = "done"
    /\ task[p].data = Partial(f, task[p].data[f])
    /\ task[p].data[f] # Undef
    /\ Has(task[p].pre, k)
    /\ \/ task[p].op = "update" /\ getKey(task[p].id) = k
                                /\ task[p].ret.kind = "doc"
       \/ task[p].op = "updateMany" /\ k \in Matching(task[p].pre, task[p].query)
                                    /\ task[p].ret.kind = "count"
                                    /\ task[p].ret.n >= 1

\* C20: when two concurrent update / updateMany calls on the same document,
\* with partials on different fields, have both completed with success, the
\* stored document is the one the last writer wrote: it carries the change
\* of at least one of the calls, and nothing makes it carry both (the state
\* where it carries only one is reachable).
C20_LastWriterWins ==
    \A k \in DOMAIN store : \A f, g \in DataFields :
        (f # g /\ Updated(1, k, f) /\ Updated(2, k, g))
            => \/ Stored(store, k)[f] = task[1].data[f]
               \/ Stored(store, k)[g] = task[2].data[g]

\* both calls have completed with success and the stored document carries
\* the change of one only: the other call's field has the value it had
\* before both.
C20_Witness ==
    \E k \in DOMAIN store : \E f, g \in DataFields : \E p, q \in Procs :
        /\ f # g /\ p # q
        /\ Updated(p, k, f) /\ Updated(q, k, g)
        /\ Stored(task[p].pre, k) = Stored(task[q].pre, k)
        /\ Stored(store, k)[f] = task[p].data[f]
        /\ Stored(store, k)[g] # task[q].data[g]
        /\ Stored(store, k)[g] = Stored(task[q].pre, k)[g]


\* C17: a method called before the connection is established fails with the
\* configuration error, and the store is as it was when the call was made.
C17_EarlyCallsFailWithConfigError ==
    \A p \in Procs :
        early[p] # "none" =>
            /\ task[p].pc = "done"
            /\ task[p].ret = RetError("ConfigError")
            /\ store = task[p].pre

\* C17, for the calls made before connectRedis is called: they are rejected
\* with the configuration error in the step of the call, which leaves the
\* store alone
C17_CallsBeforeConnectRedisFail ==
    [][\A p \in Procs :
          (client = "null" /\ early[p] = "none" /\ early'[p] # "none")
              => /\ task'[p].pc = "done"
                 /\ task'[p].ret = RetError("ConfigError")
                 /\ store' = store]_vars


\* the keys of st that hold a document (a JSON text) which query accepts
MatchingJSON(st, query) ==
    {k \in DOMAIN st : IsJSON(st[k]) /\ Evaluator(variant, Stored(st, k), query)}

\* C18: a stored value that cannot be decoded does not abort a scan: find,
\* findOne, countDocuments, updateMany and deleteMany are not rejected by it,
\* and find and countDocuments still reach every well-formed match.
C18_MalformedEntryDoesNotAbortScan ==
    (task[1].pc = "done"
        /\ task[1].op \in {"find", "findOne", "countDocuments",
                           "updateMany", "deleteMany"})
        => /\ task[1].ret.kind # "SyntaxError"
           /\ Finished("find") =>
                 Len(task[1].ret.docs)
                     = Cardinality(MatchingJSON(task[1].pre, task[1].query))
           /\ Finished("countDocuments") =>
                 task[1].ret.n
                     = Cardinality(MatchingJSON(task[1].pre, task[1].query))

\* C18 holds of the scans over a store all of whose entries are JSON
C18_ScanOfWellFormedStore ==
    (task[1].pc = "done"
        /\ task[1].op \in {"find", "findOne", "countDocuments",
                           "updateMany", "deleteMany"}
        /\ \A k \in DOMAIN task[1].pre : IsJSON(task[1].pre[k]))
        => task[1].ret.kind # "SyntaxError"

\* updateMany or deleteMany was rejected by a store failure in turn k of its
\* loop: the first k-1 matches are mutated, everything else is as it was
FailedInTurn ==
    LET pre == task[1].pre
        M == MatchingJSON(pre, task[1].query)
        rest == {task[1].docs[i] : i \in DOMAIN task[1].docs}
    IN  \E S \in SUBSET M :
            /\ Cardinality(S) = task[1].count
            /\ Cardinality(M \ S) = Len(task[1].docs)
            /\ rest = {Stored(pre, k) : k \in M \ S}
            /\ \A k \in S :
                  IF task[1].op = "updateMany"
                  THEN /\ Has(store, k)
                       /\ Stored(store, k) = Assign(Stored(pre, k), task[1].data)
                  ELSE ~ Has(store, k)
            /\ \A k \in DOMAIN pre \ S : Has(store, k) /\ store[k] = pre[k]
            /\ DOMAIN store \subseteq DOMAIN pre

\* C19: when the store fails on the mutation of the k-th matching document
\* of updateMany or deleteMany, the call is rejected at once, the first k-1
\* matches stay mutated or deleted, and the k-th and later ones, like every
\* other document, are as they were.
C19_BulkFailureIsPartial ==
    ((Finished("updateMany") \/ Finished("deleteMany"))
        /\ task[1].ret = RetError("StoreError"))
        => FailedInTurn

\* C19, in the states where every stored document carries the non-empty id of
\* its key
C19_BulkFailureIsPartialOnIntactIds ==
    ((Finished("updateMany") \/ Finished("deleteMany"))
        /\ task[1].ret = RetError("StoreError")
        /\ \A k \in DOMAIN task[1].pre :
              IsJSON(task[1].pre[k]) => Stored(task[1].pre, k)["id"] = k /\ Truthy(k))
        => FailedInTurn

\* updateMany has been rejected in the second turn of its loop, over
\* documents that carry the ids of their keys: one is merged, one is not
C19_FailureInSecondTurn ==
    /\ Finished("updateMany")
    /\ task[1].ret = RetError("StoreError")
    /\ task[1].count = 1 /\ Len(task[1].docs) = 1
    /\ task[1].data = Partial("name", Str(2))
    /\ \A k \in DOMAIN task[1].pre :
          IsJSON(task[1].pre[k]) /\ Stored(task[1].pre, k)["id"] = k /\ Truthy(k)
    /\ Cardinality({k \in DOMAIN store : Stored(store, k)["name"] = Str(2)}) = 1
    /\ Cardinality({k \in DOMAIN store : Stored(store, k)["name"] = Str(1)}) = 1

\* C19: once rejected, the operation issues no store call: the store stays
\* as it is until the caller calls again
C19_NoStoreCallAfterFailure ==
    [][(task[1].pc = "done" /\ task[1].ret = RetError("StoreError"))
          => store' = store]_vars


\* caller q has completed a delete or deleteMany of the document under k,
\* which the store reported removed
Deleted(q, k) ==
    /\ task[q].pc = "done"
    /\ Has(task[q].pre, k)
    /\ task[q].ret.kind = "count" /\ task[q].ret.n >= 1
    /\ task[q].removed >= 1
    /\ \/ task[q].op = "delete" /\ getKey(task[q].id) = k
       \/ task[q].op = "deleteMany"
              /\ k \in Matching(task[q].pre, task[q].query)

\* C23: a key that existed and is absent comes back into the store only by
\* the write of an update or updateMany call that was made while the
\* document was stored (so a document deleted during such a call can be
\* written back by it, and the state where this has happened is reachable).
C23_OnlyAWriteBackRestores ==
    [][\A k \in issued :
          (~ Has(store, k) /\ Has(store', k))
              => \E p \in Procs :
                    /\ task[p].op \in {"update", "updateMany"}
                    /\ task[p].pc \in {"set", "many_set"}
                    /\ Has(task[p].pre, k)
                    /\ task'[p] # task[p]]_vars

\* both calls have completed: the delete removed the document and returned a
\* count that is not zero, the update read it before that and wrote the
\* merged document afterwards; the document is stored again, with the
\* update's change, and no create has run since.
C23_Witness ==
    \E k \in DOMAIN store : \E p, q \in Procs : \E f \in DataFields :
        /\ p # q
        /\ Updated(p, k, f)
        /\ Deleted(q, k)
        /\ Stored(store, k)[f] = task[p].data[f]
        /\ Stored(store, k)["id"] = k


\* the documents a scan has collected so far, or has returned
Collected(t) == IF t.pc = "done" THEN t.ret.docs ELSE t.docs

\* the keys of the documents in the sequence s
KeysOf(s) == {getKey(s[i]["id"]) : i \in DOMAIN s}

\* the scan of caller p reads a key that has no value any more
ReadsVanishedKey(p) ==
    /\ task[p].pc = "get"
    /\ task'[p] # task[p]
    /\ ~ Has(store, Head(task[p].keys))

\* C27: a scan tolerates keys that vanish while it runs.  The turn that
\* reads a key without a value adds nothing to the result and raises no
\* error; a completed find or countDocuments is never rejected, returns (or
\* counts) every matching document whose key is still stored, and returns
\* only documents of keys that matched when the scan began, each once.
C27_ScanSkipsVanishedKeys ==
    /\ [][\A p \in Procs :
            ReadsVanishedKey(p)
                => /\ task'[p].ret.kind # "SyntaxError"
                   /\ task[p].op = "find"
                        => Collected(task'[p]) = Collected(task[p])
                   /\ task[p].op = "countDocuments" /\ task'[p].pc = "done"
                        => task'[p].ret.n = Len(task[p].docs)]_vars
    /\ [](\A p \in Procs :
            task[p].pc = "done" /\ task[p].op \in {"find", "countDocuments"}
                => LET M == Matching(task[p].pre, task[p].query)
                       docs == task[p].ret.docs
                   IN  /\ task[p].op = "find"
                            => /\ task[p].ret.kind = "docs"
                               /\ M \cap DOMAIN store \subseteq KeysOf(docs)
                               /\ KeysOf(docs) \subseteq M
                               /\ \A i \in DOMAIN docs :
                                     /\ Occurrences(docs, docs[i]) = 1
                                     /\ docs[i] = Stored(task[p].pre,
                                                    getKey(docs[i]["id"]))
                       /\ task[p].op = "countDocuments"
                            => /\ task[p].ret.kind = "count"
                               /\ task[p].ret.n >= Cardinality(M \cap DOMAIN store)
                               /\ task[p].ret.n <= Cardinality(M))

\* find has completed: a concurrent delete removed a matching key after the
\* enumeration and before the scan read it, the result lacks that document
\* and holds the other matching one.
C27_Witness ==
    \E p, q \in Procs : \E k, j \in DOMAIN task[p].pre :
        /\ p # q /\ k # j
        /\ task[p].op = "find" /\ task[p].pc = "done"
        /\ task[p].ret.kind = "docs"
        /\ Deleted(q, k)
        /\ {k, j} \subseteq Matching(task[p].pre, task[p].query)
        /\ KeysOf(task[p].ret.docs) = {j}


ReadOps == {"find", "findOne", "findById", "countDocuments"}

\* C26: read operations leave the store unchanged.  No step of find,
\* findOne, findById or countDocuments (the key enumeration, each get, the
\* return) changes the set of keys or a stored value, so when the call has
\* completed the store is what it was when the call was made; findById
\* completes in the step of its single get.
C26_ReadsLeaveStoreUnchanged ==
    /\ [][\A p \in Procs :
            /\ task'[p] # task[p] /\ task'[p].op \in ReadOps
                  => store' = store
            /\ task'[p] # task[p] /\ task'[p].op = "findById"
                  => task[p].pc = "idle" /\ task'[p].pc = "done"]_vars
    /\ [](\A op \in ReadOps : Finished(op) => store = task[1].pre)

\* findById has returned a stored document of a collection of two, and the
\* store is what it was
C26_Witness ==
    /\ Finished("findById")
    /\ task[1].ret.kind = "doc"
    /\ Cardinality(DOMAIN store) = 2
    /\ store = task[1].pre
    /\ Stored(store, getKey(task[1].id)) = task[1].ret.doc


\* the first document, in the order ks of the keys, that st holds and the
\* query accepts; null when there is none
RECURSIVE FirstMatch(_, _, _)
FirstMatch(st, ks, query) ==
    IF ks = <<>> THEN RetNull
    ELSE IF /\ Has(st, Head(ks))
            /\ IsJSON(st[Head(ks)])
            /\ Evaluator("Model", Stored(st, Head(ks)), query)
         THEN RetDoc(Stored(st, Head(ks)))
         ELSE FirstMatch(st, Tail(ks), query)

\* what the findOne of task t is bound to return over st: what it has
\* returned, else the first match it holds, else the first match among the
\* keys it has yet to read
Outcome(st, t) ==
    IF t.pc = "done" THEN t.ret
    ELSE IF t.docs # <<>> THEN RetDoc(t.docs[1])
    ELSE FirstMatch(st, t.keys, t.query)

FindOneIsFirstMatch ==
    /\ task[1].pc = "idle" /\ task'[1].op = "findOne"
          => \E ks \in Enumerations(DOMAIN store) :
                Outcome(store', task'[1]) = FirstMatch(store, ks, task'[1].query)
    /\ task[1].op = "findOne" /\ task[1].pc = "get" /\ task'[1] # task[1]
          => Outcome(store', task'[1]) = Outcome(store, task[1])

FindOneNullIffNoMatch ==
    Finished("findOne")
        => /\ task[1].ret.kind \in {"doc", "null"}
           /\ task[1].ret = RetNull
                 <=> \A k \in DOMAIN task[1].pre :
                        ~ (/\ IsJSON(task[1].pre[k])
                           /\ Evaluator("Model", Stored(task[1].pre, k),
                                        task[1].query))

WellFormed(st) == \A k \in DOMAIN st : IsJSON(st[k])

\* C25 over a store of JSON values only
C25_FindOneOnWellFormedStore ==
    /\ [][WellFormed(store) => FindOneIsFirstMatch]_vars
    /\ [](WellFormed(store) => FindOneNullIffNoMatch)


\* the keys of the entries that were written through the collection of the
\* last call, when the call was made
Own == {k \in DOMAIN kCall.pre : kCall.owner[k] = kCall.name}

\* those of them whose document the query of the call accepts
OwnMatches ==
    {k \in Own : Evaluator(variant, Stored(kCall.pre, k), kCall.query)}

\* the last call saw the entries of its own collection only, and left the
\* entries of the other collections as they were
SawAndTouchedOwnOnly ==
    /\ kCall.op = "find"
          => /\ Len(kCall.ret.docs) = Cardinality(OwnMatches)
             /\ \A i \in DOMAIN kCall.ret.docs :
                   \E k \in OwnMatches :
                      kCall.ret.docs[i] = Stored(kCall.pre, k)
    /\ kCall.op \in {"countDocuments", "updateMany", "deleteMany"}
          => kCall.ret.n = Cardinality(OwnMatches)
    /\ kCall.op \in {"find", "countDocuments", "updateMany", "deleteMany"}
          => \A k \in DOMAIN kCall.pre \ Own :
                k \in DOMAIN store /\ store[k] = kCall.pre[k]

\* C24: operations on one collection never read, return, modify or delete
\* documents of another: find, countDocuments, updateMany and deleteMany on
\* a collection see and touch only the entries written through it, whatever
\* the names of the collections (one may be a prefix of the other) and the
\* ids (they may contain ":").
C24_CollectionsAreIsolated == SawAndTouchedOwnOnly

\* the same, for the calls on a collection such that `${name}:` is the
\* beginning of no key of another collection
C24_CollectionsOfUnrelatedNamesAreIsolated ==
    (\A k \in DOMAIN kCall.pre \ Own : ~ KeysPattern(kCall.name, k))
        => SawAndTouchedOwnOnly

(***************************************************************************)
(* The evaluator as the specification states it (section 4.2): a           *)
(* conjunction over the fields of the query, each operator with the        *)
(* semantics of its table row.                                             *)
(***************************************************************************)
OpHolds(o, value) ==
    CASE o.op = "$gt" -> JsGt(value, o.arg)
      [] o.op = "$gte" -> JsGte(value, o.arg)
      [] o.op = "$lt" -> JsLt(value, o.arg)
      [] o.op = "$lte" -> JsLte(value, o.arg)
      [] o.op = "$in" -> value \in o.arr
      [] o.op = "$nin" -> value \notin o.arr
      [] o.op = "$ne" -> ~ StrictEq(value, o.arg)

CondHolds(value, cond) ==
    IF cond.kind = "lit"
    THEN StrictEq(value, cond.v)
    ELSE \A i \in DOMAIN cond.ops : OpHolds(cond.ops[i], value)

Conjunction(doc, query) ==
    \A i \in DOMAIN query : CondHolds(doc[query[i].field], query[i].cond)

\* the operator keys of a query
OpKeys(query) ==
    UNION {{query[i].cond.ops[j].op : j \in DOMAIN query[i].cond.ops} :
              i \in DOMAIN query}

\* C4: in every variant the evaluator is the conjunction of the conditions of
\* the query, each of the seven operators with its semantics ($gt >, $gte >=,
\* $lt <, $lte <=, $in member, $nin not a member, $ne differs), a literal by
\* strict equality.
C4_ConjunctionInEveryVariant ==
    (mDone /\ OpKeys(mQuery) \subseteq KnownOpNames)
        => mResult = Conjunction(mDoc, mQuery)

\* C4, for the two variants that implement the seven operators
C4_ConjunctionInFullVariants ==
    (mDone /\ mVariant \in {"Model", "RedisModel"}
           /\ OpKeys(mQuery) \subseteq KnownOpNames)
        => mResult = Conjunction(mDoc, mQuery)

\* C5: a query that holds an operator key other than the seven operators
\* matches no document.
C5_UnknownOperatorMatchesNothing ==
    (mDone /\ mVariant \in {"Model", "RedisModel"}
           /\ OpKeys(mQuery) \cap UnknownOpNames # {})
        => mResult = FALSE

\* C5, for Model._matchesQuery alone (the switch's default case)
C5_UnknownOperatorFailsClosedInModel ==
    (mDone /\ mVariant = "Model" /\ OpKeys(mQuery) \cap UnknownOpNames # {})
        => mResult = FALSE

\* a condition that may hold of an absent field: an operator object made
\* solely of $ne and $nin
SolelyNeNin(cond) ==
    /\ cond.kind = "ops"
    /\ \A j \in DOMAIN cond.ops : cond.ops[j].op \in {"$ne", "$nin"}

\* C6: when a document lacks a field, a condition on that field can hold only
\* if it is an operator object made solely of $ne and/or $nin; so a query that
\* matches the document has only such conditions on the absent fields.
C6_AbsentFieldOnlyNeNin ==
    (mDone /\ mVariant \in {"Model", "RedisModel"} /\ mResult)
        => \A i \in DOMAIN mQuery :
              mDoc[mQuery[i].field] = Undef => SolelyNeNin(mQuery[i].cond)

\* C6, for Model._matchesQuery alone
C6_AbsentFieldOnlyNeNinInModel ==
    (mDone /\ mVariant = "Model" /\ mResult)
        => \A i \in DOMAIN mQuery :
              mDoc[mQuery[i].field] = Undef => SolelyNeNin(mQuery[i].cond)

====
